---- MODULE Spec2Model ----
(***************************************************************************)
(* Model of the hand-written serde codecs of ruma-client-api:              *)
(*   - AlgorithmAndDeviceId ("<algorithm>:<device id>"), src/r0/keys.rs    *)
(*   - Action (bare string or set_tweak object),         src/r0/push.rs    *)
(*   - Ruleset, PushRule, PushCondition (derived codecs),                  *)
(*                                   src/r0/push/get_pushrules_all.rs      *)
(*                                                                         *)
(* The codecs are pure functions.  They are exercised by a small harness:  *)
(* a value is constructed and serialized onto the wire, or a payload is    *)
(* received from a peer, and then the wire form is deserialized; a decoded  *)
(* key may be serialized again (echo).                                     *)
(*                                                                         *)
(* Key strings are sequences of one-character strings, so that split(':')  *)
(* is computed character by character.  JSON values are records            *)
(* [t, s, f]: t the JSON kind, s the scalar's text, f the entries of an    *)
(* object (a sequence, in document order, of [key, val]).                  *)
(***************************************************************************)
EXTENDS Integers, Sequences, FiniteSets, TLC

VARIABLES pc, codec, sent, value, wire, result, echo

vars == <<pc, codec, sent, value, wire, result, echo>>

(* ------------------------------ bounds --------------------------------- *)

\* longest device id a caller constructs
MaxDevLen == 3

\* most chunks an inbound key string is made of
MaxChunks == 4

\* most entries of an inbound action object
MaxEntries == 3

\* most entries of an inbound push condition object
MaxCondEntries == 3

(* ------------------------------ strings -------------------------------- *)

Colon == ":"

Str_ed25519 == <<"e", "d", "2", "5", "5", "1", "9">>

Str_curve25519 == <<"c", "u", "r", "v", "e", "2", "5", "5", "1", "9">>

Str_signed_curve25519 == <<"s", "i", "g", "n", "e", "d", "_">> \o Str_curve25519

\* str::find(':'): the position of the first ':' of a string, 0 without one
find(s) ==
    IF \A i \in 1..Len(s) : s[i] # Colon
    THEN 0
    ELSE CHOOSE i \in 1..Len(s) : s[i] = Colon /\ \A j \in 1..(i - 1) : s[j] # Colon

\* the Split iterator of str::split(':'): the substring up to the next ':',
\* then the substrings of what follows it; the substring left when no ':'
\* remains is the last one
RECURSIVE split_next(_)
split_next(s) ==
    IF find(s) = 0
    THEN <<s>>
    ELSE <<SubSeq(s, 1, find(s) - 1)>> \o split_next(SubSeq(s, find(s) + 1, Len(s)))

\* str::split_terminator(':'): as split, without a trailing empty substring
split_terminator(s) ==
    LET parts == split_next(s)
    IN  IF parts[Len(parts)] = <<>> THEN SubSeq(parts, 1, Len(parts) - 1) ELSE parts

\* value.split(':').collect::<Vec<_>>()
split(s) == split_next(s)

\* all sequences over S of length at most n
RECURSIVE SeqsUpTo(_, _)
SeqsUpTo(S, n) ==
    IF n = 0
    THEN {<<>>}
    ELSE LET shorter == SeqsUpTo(S, n - 1)
         IN  shorter \cup {Append(q, x) : q \in shorter, x \in S}

\* concatenation of a sequence of strings
RECURSIVE Concat(_)
Concat(ss) == IF ss = <<>> THEN <<>> ELSE Head(ss) \o Concat(Tail(ss))

(* ------------------------------ results -------------------------------- *)

Ok(v) == [ok |-> TRUE, val |-> v]

Err(kind, token) == [ok |-> FALSE, err |-> kind, tok |-> token]

(* --------------------------- KeyAlgorithm ------------------------------ *)

KeyAlgorithm == {"Ed25519", "Curve25519", "SignedCurve25519"}

\* Display with the Curve25519 arm printing the Ed25519 token
KeyAlgorithm_fmt_same_token(alg) ==
    CASE alg = "Ed25519" -> Str_ed25519
      [] alg = "Curve25519" -> Str_ed25519
      [] alg = "SignedCurve25519" -> Str_signed_curve25519

\* impl Display for KeyAlgorithm
KeyAlgorithm_fmt(alg) ==
    CASE alg = "Ed25519" -> Str_ed25519
      [] alg = "Curve25519" -> Str_curve25519
      [] alg = "SignedCurve25519" -> Str_signed_curve25519

\* char::to_ascii_lowercase on the letters the inputs use
to_ascii_lowercase(c) ==
    CASE c = "E" -> "e"
      [] c = "A" -> "a"
      [] OTHER -> c

\* try_from matching the lower-cased string
KeyAlgorithm_try_from_ignore_case(s) ==
    LET lower == [i \in 1..Len(s) |-> to_ascii_lowercase(s[i])]
    IN  CASE lower = Str_ed25519 -> Ok("Ed25519")
          [] lower = Str_curve25519 -> Ok("Curve25519")
          [] lower = Str_signed_curve25519 -> Ok("SignedCurve25519")
          [] OTHER -> Err("Unknown algorithm", s)

\* impl TryFrom<&str> for KeyAlgorithm
KeyAlgorithm_try_from(s) ==
    CASE s = Str_ed25519 -> Ok("Ed25519")
      [] s = Str_curve25519 -> Ok("Curve25519")
      [] s = Str_signed_curve25519 -> Ok("SignedCurve25519")
      [] OTHER -> Err("Unknown algorithm", s)

(* ------------------------- AlgorithmAndDeviceId ------------------------ *)

\* pub struct AlgorithmAndDeviceId(pub KeyAlgorithm, pub DeviceId)
AlgorithmAndDeviceId(alg, dev) == [alg |-> alg, dev |-> dev]

\* serialize leaving the ':' characters of the device id out
AlgorithmAndDeviceId_serialize_strip(id) ==
    KeyAlgorithm_fmt(id.alg) \o <<Colon>> \o SelectSeq(id.dev, LAMBDA c : c # Colon)

\* impl Serialize: format!("{}:{}", self.0, self.1)
AlgorithmAndDeviceId_serialize(id) == KeyAlgorithm_fmt(id.alg) \o <<Colon>> \o id.dev

\* str::trim on the white space the inputs use
trim(s) ==
    LET inked == {i \in 1..Len(s) : s[i] # " "}
    IN  IF inked = {}
        THEN <<>>
        ELSE SubSeq(s, CHOOSE i \in inked : \A j \in inked : i <= j,
                       CHOOSE i \in inked : \A j \in inked : j <= i)

\* visit_str trimming the device id (parts[1].trim().to_string())
AlgorithmAndDeviceIdVisitor_visit_str_trim(v) ==
    LET parts == split(v)
    IN  IF Len(parts) < 2
        THEN Err("MissingSeparator", <<>>)
        ELSE IF Len(parts) > 2
        THEN Err("TooManySeparators", <<>>)
        ELSE LET algorithm == KeyAlgorithm_try_from(parts[1])
             IN  IF ~algorithm.ok
                 THEN Err("UnknownAlgorithm", parts[1])
                 ELSE Ok(AlgorithmAndDeviceId(algorithm.val, trim(parts[2])))

\* visit_str splitting with splitn(2, ':'): everything after the first ':'
\* is the device id
AlgorithmAndDeviceIdVisitor_visit_str_splitn(v) ==
    LET all == split(v)
        parts == IF Len(all) <= 2
                 THEN all
                 ELSE <<all[1], SubSeq(v, Len(all[1]) + 2, Len(v))>>
    IN  IF Len(parts) < 2
        THEN Err("MissingSeparator", <<>>)
        ELSE LET algorithm == KeyAlgorithm_try_from(parts[1])
             IN  IF ~algorithm.ok
                 THEN Err("UnknownAlgorithm", parts[1])
                 ELSE Ok(AlgorithmAndDeviceId(algorithm.val, parts[2]))

\* AlgorithmAndDeviceIdVisitor::visit_str
AlgorithmAndDeviceIdVisitor_visit_str(v) ==
    LET parts == split(v)
    IN  IF Len(parts) < 2
        THEN Err("MissingSeparator", <<>>)
        ELSE IF Len(parts) > 2
        THEN Err("TooManySeparators", <<>>)
        ELSE LET algorithm == KeyAlgorithm_try_from(parts[1])
             IN  IF ~algorithm.ok
                 THEN Err("UnknownAlgorithm", parts[1])
                 ELSE Ok(AlgorithmAndDeviceId(algorithm.val, parts[2]))

(* ------------------------------- JSON ---------------------------------- *)

\* serde_json::Value
JNull == [t |-> "null", s |-> "", f |-> <<>>]

JBool(b) == [t |-> "bool", s |-> b, f |-> <<>>]

JNum(n) == [t |-> "num", s |-> n, f |-> <<>>]

JStr(str) == [t |-> "str", s |-> str, f |-> <<>>]

\* an array, f its elements in order
JArr(elems) == [t |-> "arr", s |-> "", f |-> elems]

\* an object, f its entries in document order
JObj(entries) == [t |-> "obj", s |-> "", f |-> entries]

Entry(k, v) == [key |-> k, val |-> v]

\* the positions of the entries of an object that have a key
EntriesWithKey(es, k) == {i \in 1..Len(es) : es[i].key = k}

\* Option<T>
None == [some |-> FALSE]

Some(v) == [some |-> TRUE, v |-> v]

(* ------------------------------ Action --------------------------------- *)

\* pub enum TweakKind
Sound == [k |-> "Sound", name |-> ""]

Highlight == [k |-> "Highlight", name |-> ""]

Custom(name) == [k |-> "Custom", name |-> name]

\* pub enum Action
Notify == [tag |-> "Notify"]

DontNotify == [tag |-> "DontNotify"]

Coalesce == [tag |-> "Coalesce"]

SetTweak(kind, tweak_value) ==
    [tag |-> "SetTweak", kind |-> kind, value |-> tweak_value]

\* serde_json's Serializer::serialize_unit_variant: the variant name as a string
serialize_unit_variant(name, variant_index, variant) == JStr(variant)

\* serde_json's Serializer::serialize_struct_variant with the fields written
\* by serialize_field and closed by end(): the externally tagged form, an
\* object whose only entry is the variant name holding the fields' object
serialize_struct_variant(name, variant_index, variant, fields) ==
    JObj(<<Entry(variant, JObj(fields))>>)

\* impl Serialize for Action
Action_serialize(a) ==
    CASE a.tag = "Notify" -> serialize_unit_variant("Action", 0, "notify")
      [] a.tag = "DontNotify" -> serialize_unit_variant("Action", 1, "dont_notify")
      [] a.tag = "Coalesce" -> serialize_unit_variant("Action", 2, "coalesce")
      [] a.tag = "SetTweak" ->
            LET kind_name == CASE a.kind.k = "Sound" -> "sound"
                               [] a.kind.k = "Highlight" -> "highlight"
                               [] a.kind.k = "Custom" -> a.kind.name
                set_tweak == <<Entry("set_tweak", JStr(kind_name))>>
                fields == IF a.value.some
                          THEN set_tweak \o <<Entry("value", a.value.v)>>
                          ELSE set_tweak
            IN  serialize_struct_variant("Action", 3, "SetTweak", fields)

\* visit_str with a fallback arm that takes any other string for a tweak name
ActionVisitor_visit_str_fallback(v) ==
    CASE v = "notify" -> Ok(Notify)
      [] v = "dont_notify" -> Ok(DontNotify)
      [] v = "coalesce" -> Ok(Coalesce)
      [] OTHER -> Ok(SetTweak(Custom(v), None))

\* ActionVisitor::visit_str
ActionVisitor_visit_str(v) ==
    CASE v = "notify" -> Ok(Notify)
      [] v = "dont_notify" -> Ok(DontNotify)
      [] v = "coalesce" -> Ok(Coalesce)
      [] OTHER -> Err("InvalidSimpleAction", v)

\* the while-let loop of ActionVisitor::visit_map and the match after it:
\* i is the next entry map.next_entry() yields
RECURSIVE ActionVisitor_visit_map_loop(_, _, _, _)
ActionVisitor_visit_map_loop(map, i, tweak_kind, tweak_value) ==
    IF i > Len(map)
    THEN IF tweak_kind.some
         THEN Ok(SetTweak(tweak_kind.v, tweak_value))
         ELSE Err("MissingTweakDiscriminator", "")
    ELSE LET key == map[i].key
             val == map[i].val
         IN  CASE key = "set_tweak" ->
                    IF val.t # "str"
                    THEN Err("InvalidTweakKind", "")
                    ELSE LET kind == CASE val.s = "sound" -> Sound
                                       [] val.s = "highlight" -> Highlight
                                       [] OTHER -> Custom(val.s)
                         IN  ActionVisitor_visit_map_loop(map, i + 1, Some(kind), tweak_value)
               [] key = "value" ->
                    ActionVisitor_visit_map_loop(map, i + 1, tweak_kind, Some(val))
               [] OTHER ->
                    ActionVisitor_visit_map_loop(map, i + 1, tweak_kind, tweak_value)

\* the loop leaving at the first "set_tweak" entry (a break after
\* tweak_kind = Some(kind)): entries after it are never read
RECURSIVE ActionVisitor_visit_map_loop_break(_, _, _, _)
ActionVisitor_visit_map_loop_break(map, i, tweak_kind, tweak_value) ==
    IF i > Len(map) \/ tweak_kind.some
    THEN IF tweak_kind.some
         THEN Ok(SetTweak(tweak_kind.v, tweak_value))
         ELSE Err("MissingTweakDiscriminator", "")
    ELSE LET key == map[i].key
             val == map[i].val
         IN  CASE key = "set_tweak" ->
                    IF val.t # "str"
                    THEN Err("InvalidTweakKind", "")
                    ELSE LET kind == CASE val.s = "sound" -> Sound
                                       [] val.s = "highlight" -> Highlight
                                       [] OTHER -> Custom(val.s)
                         IN  ActionVisitor_visit_map_loop_break(map, i + 1, Some(kind), tweak_value)
               [] key = "value" ->
                    ActionVisitor_visit_map_loop_break(map, i + 1, tweak_kind, Some(val))
               [] OTHER ->
                    ActionVisitor_visit_map_loop_break(map, i + 1, tweak_kind, tweak_value)

ActionVisitor_visit_map_break(map) == ActionVisitor_visit_map_loop_break(map, 1, None, None)

\* the loop skipping a "set_tweak" entry whose value is not a string (the
\* None arm of value.as_str() falling through instead of returning)
RECURSIVE ActionVisitor_visit_map_loop_skip(_, _, _, _)
ActionVisitor_visit_map_loop_skip(map, i, tweak_kind, tweak_value) ==
    IF i > Len(map)
    THEN IF tweak_kind.some
         THEN Ok(SetTweak(tweak_kind.v, tweak_value))
         ELSE Err("MissingTweakDiscriminator", "")
    ELSE LET key == map[i].key
             val == map[i].val
         IN  CASE key = "set_tweak" /\ val.t = "str" ->
                    LET kind == CASE val.s = "sound" -> Sound
                                  [] val.s = "highlight" -> Highlight
                                  [] OTHER -> Custom(val.s)
                    IN  ActionVisitor_visit_map_loop_skip(map, i + 1, Some(kind), tweak_value)
               [] key = "value" ->
                    ActionVisitor_visit_map_loop_skip(map, i + 1, tweak_kind, Some(val))
               [] OTHER ->
                    ActionVisitor_visit_map_loop_skip(map, i + 1, tweak_kind, tweak_value)

ActionVisitor_visit_map_skip(map) == ActionVisitor_visit_map_loop_skip(map, 1, None, None)

\* the loop keeping the first "set_tweak" and the first "value" entry (an
\* assignment guarded by is_none()): later entries of the key are dropped
RECURSIVE ActionVisitor_visit_map_loop_first(_, _, _, _)
ActionVisitor_visit_map_loop_first(map, i, tweak_kind, tweak_value) ==
    IF i > Len(map)
    THEN IF tweak_kind.some
         THEN Ok(SetTweak(tweak_kind.v, tweak_value))
         ELSE Err("MissingTweakDiscriminator", "")
    ELSE LET key == map[i].key
             val == map[i].val
         IN  CASE key = "set_tweak" ->
                    IF val.t # "str"
                    THEN Err("InvalidTweakKind", "")
                    ELSE LET kind == CASE val.s = "sound" -> Sound
                                       [] val.s = "highlight" -> Highlight
                                       [] OTHER -> Custom(val.s)
                         IN  ActionVisitor_visit_map_loop_first(
                                 map, i + 1,
                                 IF tweak_kind.some THEN tweak_kind ELSE Some(kind),
                                 tweak_value)
               [] key = "value" ->
                    ActionVisitor_visit_map_loop_first(
                        map, i + 1, tweak_kind,
                        IF tweak_value.some THEN tweak_value ELSE Some(val))
               [] OTHER ->
                    ActionVisitor_visit_map_loop_first(map, i + 1, tweak_kind, tweak_value)

ActionVisitor_visit_map_first(map) == ActionVisitor_visit_map_loop_first(map, 1, None, None)

\* ActionVisitor::visit_map
ActionVisitor_visit_map(map) == ActionVisitor_visit_map_loop(map, 1, None, None)

\* impl Deserialize for Action: deserialize_any(ActionVisitor) calls the
\* visitor method of the value's JSON kind; the kinds ActionVisitor does not
\* implement fall to Visitor's default methods, which reject the value
Action_deserialize(w) ==
    CASE w.t = "str" -> ActionVisitor_visit_str(w.s)
      [] w.t = "obj" -> ActionVisitor_visit_map(w.f)
      [] OTHER -> Err("InvalidActionShape", "")

(* ------------------- derived codecs: Ruleset, PushRule ----------------- *)

\* the wire names of the fields of the structs with #[derive(Deserialize)],
\* in declaration order
FieldsOf(struct) ==
    CASE struct = "Ruleset" -> <<"content", "override", "room", "sender", "underride">>
      [] struct = "PushRule" ->
            <<"actions", "default", "enabled", "rule_id", "conditions", "pattern">>
      [] struct = "EventMatch" -> <<"key", "pattern">>
      [] struct = "RoomMemberCount" -> <<"is">>
      [] struct = "SenderNotificationPermission" -> <<"key">>

\* the type of a field; a type is its name followed by its type arguments
TypeOf(struct, field) ==
    CASE struct = "Ruleset" -> <<"Vec", "PushRule">>
      [] struct = "PushRule" /\ field = "actions" -> <<"Vec", "Action">>
      [] struct = "PushRule" /\ field \in {"default", "enabled"} -> <<"bool">>
      [] struct = "PushRule" /\ field = "rule_id" -> <<"String">>
      [] struct = "PushRule" /\ field = "conditions" -> <<"Option", "Vec", "PushCondition">>
      [] struct = "PushRule" /\ field = "pattern" -> <<"Option", "String">>
      [] OTHER -> <<"String">>

Structs == {"Ruleset", "PushRule"}

\* the variants with sender_notification_permission renamed onto the variant
\* above it
VariantOf_same_rename(kind) ==
    CASE kind = "event_match" -> "EventMatch"
      [] kind = "contains_display_name" -> "ContainsDisplayName"
      [] kind = "room_member_count" -> "RoomMemberCount"
      [] kind = "sender_notification_permission" -> "RoomMemberCount"
      [] OTHER -> ""

\* the variant of PushCondition a "kind" token selects
VariantOf(kind) ==
    CASE kind = "event_match" -> "EventMatch"
      [] kind = "contains_display_name" -> "ContainsDisplayName"
      [] kind = "room_member_count" -> "RoomMemberCount"
      [] kind = "sender_notification_permission" -> "SenderNotificationPermission"
      [] OTHER -> ""

RangeOf(seq) == {seq[i] : i \in 1..Len(seq)}

\* the least member of a non-empty set of positions
First(S) == CHOOSE i \in S : \A j \in S : i <= j

RECURSIVE deserialize(_, _)
RECURSIVE Struct_visit_map(_, _)
RECURSIVE Vec_visit_seq(_, _)
RECURSIVE PushCondition_deserialize(_)

\* the visit_map #[derive(Deserialize)] generates for a struct: the entries
\* are read in order; an entry of a known field is decoded when it is met, a
\* second entry of a field is an error, other entries are skipped; the first
\* error ends the scan.  After the last entry a field no entry filled is None
\* if it is an Option and an error otherwise, the first such field in
\* declaration order being the one reported.
Struct_visit_map(struct, map) ==
    LET fields == FieldsOf(struct)
        known == {i \in 1..Len(map) : map[i].key \in RangeOf(fields)}
        read == [i \in known |->
                    IF \E j \in known : j < i /\ map[j].key = map[i].key
                    THEN Err("DuplicateField", map[i].key)
                    ELSE deserialize(TypeOf(struct, map[i].key), map[i].val)]
        failed == {i \in known : ~read[i].ok}
        slot == [k \in RangeOf(fields) |->
                    IF EntriesWithKey(map, k) # {}
                    THEN Some(read[First(EntriesWithKey(map, k))].val)
                    ELSE IF TypeOf(struct, k)[1] = "Option" THEN Some(None) ELSE None]
        missing == {j \in 1..Len(fields) : ~slot[fields[j]].some}
    IN  IF failed # {}
        THEN read[First(failed)]
        ELSE IF missing # {}
        THEN Err("MissingField", fields[First(missing)])
        ELSE Ok([k \in RangeOf(fields) |-> slot[k].v])

\* Vec<T>'s visit_seq: the elements decoded in order, the first error returned
Vec_visit_seq(ty, elems) ==
    LET read == [i \in 1..Len(elems) |-> deserialize(ty, elems[i])]
        failed == {i \in 1..Len(elems) : ~read[i].ok}
    IN  IF failed # {}
        THEN read[First(failed)]
        ELSE Ok([i \in 1..Len(elems) |-> read[i].val])

\* #[serde(tag = "kind")] enum PushCondition: the "kind" entry selects the
\* variant, the other entries are the variant's fields
PushCondition_deserialize(w) ==
    IF w.t # "obj"
    THEN Err("InvalidType", "")
    ELSE LET kinds == EntriesWithKey(w.f, "kind")
             first == First(kinds)
             rest == SelectSeq(w.f, LAMBDA e : e.key # "kind")
         IN  IF kinds = {}
             THEN Err("MissingField", "kind")
             ELSE IF w.f[first].val.t # "str"
             THEN Err("InvalidType", "")
             ELSE IF VariantOf(w.f[first].val.s) = ""
             THEN Err("UnknownVariant", w.f[first].val.s)
             ELSE IF Cardinality(kinds) > 1
             THEN Err("DuplicateField", "kind")
             ELSE LET variant == VariantOf(w.f[first].val.s)
                  IN  IF variant = "ContainsDisplayName"
                      THEN Ok([variant |-> variant])
                      ELSE LET body == Struct_visit_map(variant, rest)
                           IN  IF body.ok
                               THEN Ok([variant |-> variant, fields |-> body.val])
                               ELSE body

\* T::deserialize for the types of the fields
deserialize(ty, w) ==
    CASE ty[1] = "bool" -> IF w.t = "bool" THEN Ok(w.s) ELSE Err("InvalidType", "")
      [] ty[1] = "String" -> IF w.t = "str" THEN Ok(w.s) ELSE Err("InvalidType", "")
      [] ty[1] = "Action" -> Action_deserialize(w)
      [] ty[1] = "PushCondition" -> PushCondition_deserialize(w)
      [] ty[1] = "Option" ->
            IF w.t = "null"
            THEN Ok(None)
            ELSE LET inner == deserialize(Tail(ty), w)
                 IN  IF inner.ok THEN Ok(Some(inner.val)) ELSE inner
      [] ty[1] = "Vec" ->
            IF w.t = "arr"
            THEN Vec_visit_seq(Tail(ty), w.f)
            ELSE Err("InvalidType", "")
      [] ty[1] \in Structs ->
            IF w.t = "obj"
            THEN Struct_visit_map(ty[1], w.f)
            ELSE Err("InvalidType", "")

\* #[derive(Deserialize)] struct Ruleset
Ruleset_deserialize(w) == deserialize(<<"Ruleset">>, w)

(* --------------------------- harness inputs ---------------------------- *)

\* characters of the device ids callers construct (DeviceId is a String)
DevChars == {"A", "9", Colon}

DeviceIds == SeqsUpTo(DevChars, MaxDevLen)

\* pieces inbound key strings are made of: the tokens, near misses, separators
KeyChunks ==
    { Str_ed25519, Str_curve25519, Str_signed_curve25519,
      <<"E", "d", "2", "5", "5", "1", "9">>, <<" ">>, <<Colon>>, <<"A">> }

KeyWireStrings == {Concat(cs) : cs \in SeqsUpTo(KeyChunks, MaxChunks)}


\* names of the Custom tweaks callers construct
CustomNames == {"ping", "sound", ""}

TweakKinds == {Sound, Highlight} \cup {Custom(n) : n \in CustomNames}

\* the values a tweak carries
TweakValues ==
    { JNull, JBool("true"), JNum("1"), JStr("default"), JArr(<<>>),
      JObj(<<Entry("set_tweak", JStr("sound"))>>) }

Actions ==
    {Notify, DontNotify, Coalesce}
        \cup {SetTweak(k, None) : k \in TweakKinds}
        \cup {SetTweak(k, Some(v)) : k \in TweakKinds, v \in TweakValues}

\* inbound action strings: the tokens, near misses, tweak and key names
ActionWireStrings ==
    { "notify", "dont_notify", "coalesce", "Notify", " notify", "dontnotify",
      "sound", "set_tweak", "" }

\* inbound action objects: entries with the two keys the decoder knows and
\* one it does not, in any order, repeated or not
WireKeys == {"set_tweak", "value", "sound"}

WireEntryValues == {JStr("sound"), JStr("highlight"), JStr("ping"), JBool("true"), JNull}

WireEntries == {Entry(k, v) : k \in WireKeys, v \in WireEntryValues}

ActionWireValues ==
    {JStr(s) : s \in ActionWireStrings}
        \cup {JNull, JBool("true"), JNum("1"), JArr(<<>>)}
        \cup {JObj(es) : es \in SeqsUpTo(WireEntries, MaxEntries)}

\* the rules inbound rulesets hold
WireRule ==
    JObj(<<Entry("actions", JArr(<<JStr("notify"),
                                  JObj(<<Entry("set_tweak", JStr("sound"))>>)>>)),
           Entry("default", JBool("true")),
           Entry("enabled", JBool("true")),
           Entry("rule_id", JStr(".m.rule.master")),
           Entry("conditions", JArr(<<JObj(<<Entry("kind", JStr("contains_display_name"))>>)>>))>>)

Categories == <<"content", "override", "room", "sender", "underride">>

\* the entries of the ruleset object that holds, for each category, what
\* shape says: nothing, an empty array or an array of one rule
RECURSIVE RulesetEntries(_, _)
RulesetEntries(shape, i) ==
    IF i > Len(Categories)
    THEN <<>>
    ELSE (CASE shape[Categories[i]] = "absent" -> <<>>
            [] shape[Categories[i]] = "empty" -> <<Entry(Categories[i], JArr(<<>>))>>
            [] shape[Categories[i]] = "one" -> <<Entry(Categories[i], JArr(<<WireRule>>))>>)
         \o RulesetEntries(shape, i + 1)

RulesetWireValues ==
    {JObj(RulesetEntries(shape, 1)) :
        shape \in [RangeOf(Categories) -> {"absent", "empty", "one"}]}

\* inbound push condition objects: the kind entry with the four tokens, near
\* misses and a number, the variants' fields, a field no variant has
ConditionEntries ==
    {Entry("kind", v) : v \in {JStr("event_match"), JStr("contains_display_name"),
                               JStr("room_member_count"),
                               JStr("sender_notification_permission"),
                               JStr("bogus"), JStr("Event_Match"), JNum("0")}}
        \cup {Entry("key", JStr("content.body")), Entry("key", JNum("1")),
              Entry("pattern", JStr("*foo*")), Entry("is", JStr("2")),
              Entry("priority", JNull)}

ConditionWireValues == {JObj(es) : es \in SeqsUpTo(ConditionEntries, MaxCondEntries)}

(* ------------------------------ the harness ---------------------------- *)

Init ==
    /\ pc = "idle"
    /\ codec = "none"
    /\ sent = FALSE
    /\ value = <<>>
    /\ wire = <<>>
    /\ result = <<>>
    /\ echo = <<>>

\* a caller combines an algorithm and a device id
ConstructKey ==
    /\ pc = "idle"
    /\ \E alg \in KeyAlgorithm, dev \in DeviceIds :
            /\ pc' = "constructed"
            /\ codec' = "key"
            /\ sent' = FALSE
            /\ value' = AlgorithmAndDeviceId(alg, dev)
            /\ wire' = <<>>
            /\ result' = <<>>
            /\ echo' = <<>>

SerializeKey ==
    /\ pc = "constructed"
    /\ codec = "key"
    /\ pc' = "encoded"
    /\ sent' = TRUE
    /\ wire' = AlgorithmAndDeviceId_serialize(value)
    /\ UNCHANGED <<codec, value, result, echo>>

\* an inbound payload carries a key string
ReceiveKey ==
    /\ pc = "idle"
    /\ \E s \in KeyWireStrings :
            /\ pc' = "received"
            /\ codec' = "key"
            /\ sent' = FALSE
            /\ value' = <<>>
            /\ wire' = s
            /\ result' = <<>>
            /\ echo' = <<>>

DeserializeKey ==
    /\ pc \in {"encoded", "received"}
    /\ codec = "key"
    /\ pc' = "decoded"
    /\ result' = AlgorithmAndDeviceIdVisitor_visit_str(wire)
    /\ UNCHANGED <<codec, sent, value, wire, echo>>

\* the decoded key is written out again, as the key of an outbound map
ReserializeKey ==
    /\ pc = "decoded"
    /\ codec = "key"
    /\ result.ok
    /\ pc' = "reencoded"
    /\ echo' = AlgorithmAndDeviceId_serialize(result.val)
    /\ UNCHANGED <<codec, sent, value, wire, result>>

\* a caller builds an Action
ConstructAction ==
    /\ pc = "idle"
    /\ \E a \in Actions :
            /\ pc' = "constructed"
            /\ codec' = "action"
            /\ sent' = FALSE
            /\ value' = a
            /\ wire' = <<>>
            /\ result' = <<>>
            /\ echo' = <<>>

SerializeAction ==
    /\ pc = "constructed"
    /\ codec = "action"
    /\ pc' = "encoded"
    /\ sent' = TRUE
    /\ wire' = Action_serialize(value)
    /\ UNCHANGED <<codec, value, result, echo>>

\* an inbound payload carries an action
ReceiveAction ==
    /\ pc = "idle"
    /\ \E w \in ActionWireValues :
            /\ pc' = "received"
            /\ codec' = "action"
            /\ sent' = FALSE
            /\ value' = <<>>
            /\ wire' = w
            /\ result' = <<>>
            /\ echo' = <<>>

DeserializeAction ==
    /\ pc \in {"encoded", "received"}
    /\ codec = "action"
    /\ pc' = "decoded"
    /\ result' = Action_deserialize(wire)
    /\ UNCHANGED <<codec, sent, value, wire, echo>>

\* an inbound payload carries a ruleset
ReceiveRuleset ==
    /\ pc = "idle"
    /\ \E w \in RulesetWireValues :
            /\ pc' = "received"
            /\ codec' = "ruleset"
            /\ sent' = FALSE
            /\ value' = <<>>
            /\ wire' = w
            /\ result' = <<>>
            /\ echo' = <<>>

DeserializeRuleset ==
    /\ pc = "received"
    /\ codec = "ruleset"
    /\ pc' = "decoded"
    /\ result' = Ruleset_deserialize(wire)
    /\ UNCHANGED <<codec, sent, value, wire, echo>>

\* an inbound payload carries a push condition
ReceiveCondition ==
    /\ pc = "idle"
    /\ \E w \in ConditionWireValues :
            /\ pc' = "received"
            /\ codec' = "condition"
            /\ sent' = FALSE
            /\ value' = <<>>
            /\ wire' = w
            /\ result' = <<>>
            /\ echo' = <<>>

DeserializeCondition ==
    /\ pc = "received"
    /\ codec = "condition"
    /\ pc' = "decoded"
    /\ result' = PushCondition_deserialize(wire)
    /\ UNCHANGED <<codec, sent, value, wire, echo>>

\* the call returns; its value, wire form and result are dropped
Return ==
    /\ pc \in {"decoded", "reencoded"}
    /\ pc' = "idle"
    /\ codec' = "none"
    /\ sent' = FALSE
    /\ value' = <<>>
    /\ wire' = <<>>
    /\ result' = <<>>
    /\ echo' = <<>>

Next ==
    \/ ConstructKey
    \/ SerializeKey
    \/ ReceiveKey
    \/ DeserializeKey
    \/ ReserializeKey
    \/ ConstructAction
    \/ SerializeAction
    \/ ReceiveAction
    \/ DeserializeAction
    \/ ReceiveRuleset
    \/ DeserializeRuleset
    \/ ReceiveCondition
    \/ DeserializeCondition
    \/ Return

Spec == Init /\ [][Next]_vars

(* ======================= AlgorithmAndDeviceId claims =================== *)

KeyDecoded == pc = "decoded" /\ codec = "key"

\* number of ':' characters of a string
ColonCount(s) == Cardinality({i \in 1..Len(s) : s[i] = Colon})

\* the characters before / after the only ':' of a string with one ':'
LeftOfColon(s) == SubSeq(s, 1, (CHOOSE i \in 1..Len(s) : s[i] = Colon) - 1)

RightOfColon(s) == SubSeq(s, (CHOOSE i \in 1..Len(s) : s[i] = Colon) + 1, Len(s))

AlgorithmTokens == {Str_ed25519, Str_curve25519, Str_signed_curve25519}

\* C1 as stated: every constructible AlgorithmAndDeviceId, whatever its
\* device id, decodes from its own encoding to an equal value.
C1_RoundTripAnyDeviceId ==
    (KeyDecoded /\ sent) => result = Ok(value)

\* C1 amended: an AlgorithmAndDeviceId whose device id contains no ':'
\* decodes from its own encoding to an equal value.
C1_RoundTripColonFree ==
    (KeyDecoded /\ sent /\ ColonCount(value.dev) = 0) => result = Ok(value)

C1_Witness ==
    /\ KeyDecoded
    /\ sent
    /\ ColonCount(value.dev) = 0
    /\ Len(value.dev) > 0
    /\ value.alg = "SignedCurve25519"

\* C5 as stated: a successfully decoded AlgorithmAndDeviceId has a device
\* id that is non-empty and contains no ':'.
C5_DeviceIdNonEmptyNoColon ==
    (KeyDecoded /\ result.ok) =>
        (Len(result.val.dev) > 0 /\ ColonCount(result.val.dev) = 0)

\* C5 amended: a successfully decoded AlgorithmAndDeviceId has a device id
\* that contains no ':' (it may be empty); the decoded string had exactly
\* one ':' and a recognized algorithm token to the left of it.
C5_DeviceIdNoColon ==
    (KeyDecoded /\ result.ok) =>
        /\ ColonCount(result.val.dev) = 0
        /\ ColonCount(wire) = 1
        /\ LeftOfColon(wire) \in AlgorithmTokens

C5_Witness ==
    /\ KeyDecoded
    /\ ~sent
    /\ result.ok
    /\ result.val.dev = <<"A", "A">>

\* C6: decoding a string without ':' fails with the missing-separator
\* error and decoding a string with more than one ':' fails with the
\* too-many-separators error, whatever the segments are.
C6_SeparatorErrors ==
    KeyDecoded =>
        /\ ColonCount(wire) = 0 => result = Err("MissingSeparator", <<>>)
        /\ ColonCount(wire) > 1 => result = Err("TooManySeparators", <<>>)

C6_Witness ==
    /\ KeyDecoded
    /\ ~sent
    /\ wire = Str_ed25519 \o <<Colon, "A", Colon>>
    /\ result = Err("TooManySeparators", <<>>)

\* C7: decoding a string with exactly one ':' fails with UnknownAlgorithm
\* carrying the left segment unless that segment is exactly one of the three
\* algorithm tokens, and otherwise yields that algorithm with the right
\* segment as device id.
C7_OneColon ==
    (KeyDecoded /\ ColonCount(wire) = 1) =>
        LET left == LeftOfColon(wire)
            right == RightOfColon(wire)
        IN  /\ left = Str_ed25519 =>
                   result = Ok(AlgorithmAndDeviceId("Ed25519", right))
            /\ left = Str_curve25519 =>
                   result = Ok(AlgorithmAndDeviceId("Curve25519", right))
            /\ left = Str_signed_curve25519 =>
                   result = Ok(AlgorithmAndDeviceId("SignedCurve25519", right))
            /\ left \notin AlgorithmTokens =>
                   result = Err("UnknownAlgorithm", left)

C7_Witness ==
    /\ KeyDecoded
    /\ ColonCount(wire) = 1
    /\ result = Err("UnknownAlgorithm", <<"E", "d", "2", "5", "5", "1", "9">>)

(* ============================ Action claims ============================ *)

ActionDecoded == pc = "decoded" /\ codec = "action"

SimpleTokens == {"notify", "dont_notify", "coalesce"}

\* the tweak kind a set_tweak token stands for
KindOfToken(s) ==
    IF s = "sound" THEN Sound ELSE IF s = "highlight" THEN Highlight ELSE Custom(s)

\* C2: every constructible Action decodes from its own encoding to an
\* equal Action.
C2_RoundTripAction ==
    (ActionDecoded /\ sent) => result = Ok(value)

\* C4: the encoding of SetTweak{kind, value} is an object whose top-level
\* fields are exactly set_tweak, holding the tweak's token, and value, present
\* if and only if the tweak has a value; the Action decoded from
\* {"set_tweak":"sound"} encodes to that object again.
C4_SetTweakFields ==
    /\ (pc = "encoded" /\ codec = "action" /\ value.tag = "SetTweak") =>
           LET token == IF value.kind.k = "Sound" THEN "sound"
                        ELSE IF value.kind.k = "Highlight" THEN "highlight"
                        ELSE value.kind.name
           IN  /\ wire.t = "obj"
               /\ \A i \in 1..Len(wire.f) : wire.f[i].key \in {"set_tweak", "value"}
               /\ Cardinality(EntriesWithKey(wire.f, "set_tweak")) = 1
               /\ \A i \in EntriesWithKey(wire.f, "set_tweak") : wire.f[i].val = JStr(token)
               /\ Cardinality(EntriesWithKey(wire.f, "value")) =
                      (IF value.value.some THEN 1 ELSE 0)
               /\ \A i \in EntriesWithKey(wire.f, "value") : wire.f[i].val = value.value.v
    /\ (ActionDecoded /\ ~sent /\ wire = JObj(<<Entry("set_tweak", JStr("sound"))>>)) =>
           /\ result = Ok(SetTweak(Sound, None))
           /\ Action_serialize(result.val) = wire

\* C8: a wire string decodes to Notify, DontNotify or Coalesce when it is
\* "notify", "dont_notify" or "coalesce", any other string fails with
\* InvalidSimpleAction carrying the string, and no string decodes to SetTweak.
C8_StringDecode ==
    (ActionDecoded /\ wire.t = "str") =>
        /\ wire.s = "notify" => result = Ok(Notify)
        /\ wire.s = "dont_notify" => result = Ok(DontNotify)
        /\ wire.s = "coalesce" => result = Ok(Coalesce)
        /\ wire.s \notin SimpleTokens => result = Err("InvalidSimpleAction", wire.s)
        /\ result.ok => result.val.tag # "SetTweak"

C8_Witness ==
    /\ ActionDecoded
    /\ wire = JStr("Notify")
    /\ result = Err("InvalidSimpleAction", "Notify")

\* the objects C9 is about: one set_tweak entry, string-valued, and at most
\* one value entry
OneTweakObject(es) ==
    /\ Cardinality(EntriesWithKey(es, "set_tweak")) = 1
    /\ \A i \in EntriesWithKey(es, "set_tweak") : es[i].val.t = "str"
    /\ Cardinality(EntriesWithKey(es, "value")) <= 1

Perms(n) == {p \in [1..n -> 1..n] : \A i, j \in 1..n : p[i] = p[j] => i = j}

\* es with entry e put at position k
InsertAt(es, k, e) == SubSeq(es, 1, k - 1) \o <<e>> \o SubSeq(es, k, Len(es))

\* entries whose keys the decoder does not know
ExtraEntries ==
    {Entry(k, v) : k \in {"sound", "SetTweak", "Value", ""}, v \in WireEntryValues}

C3_AbsentCategoryIsEmpty ==
    (pc = "decoded" /\ codec = "ruleset") =>
        /\ result.ok
        /\ \A c \in RangeOf(Categories) :
               EntriesWithKey(wire.f, c) = {} => result.val[c] = <<>>

(* ========================= PushCondition claims ======================== *)

ConditionDecoded == pc = "decoded" /\ codec = "condition"

KindTokens ==
    {"event_match", "contains_display_name", "room_member_count",
     "sender_notification_permission"}

\* the fields a kind requires, in the order the variant declares them
RequiredFields(kind) ==
    CASE kind = "event_match" -> <<"key", "pattern">>
      [] kind = "contains_display_name" -> <<>>
      [] kind = "room_member_count" -> <<"is">>
      [] kind = "sender_notification_permission" -> <<"key">>

\* the value of the only entry of an object with a key
ValueOf(es, k) == es[CHOOSE i \in 1..Len(es) : es[i].key = k].val

\* the condition a kind and an object's field values make
ConditionOf(kind, es) ==
    CASE kind = "event_match" ->
            [variant |-> "EventMatch",
             fields |-> [key |-> ValueOf(es, "key").s, pattern |-> ValueOf(es, "pattern").s]]
      [] kind = "contains_display_name" -> [variant |-> "ContainsDisplayName"]
      [] kind = "room_member_count" ->
            [variant |-> "RoomMemberCount", fields |-> [is |-> ValueOf(es, "is").s]]
      [] kind = "sender_notification_permission" ->
            [variant |-> "SenderNotificationPermission",
             fields |-> [key |-> ValueOf(es, "key").s]]

\* the required fields of a kind that an object lacks
AbsentFields(kind, es) ==
    {k \in RangeOf(RequiredFields(kind)) : EntriesWithKey(es, k) = {}}

\* C11 as stated: decoding fails with the unknown-kind error when `kind` is
\* absent or is none of the four tokens, with MissingField when the kind is
\* known and one of its required fields is absent, and otherwise yields the
\* variant of that kind with the field values.
C11_KindAbsentIsUnknownKind ==
    ConditionDecoded =>
        LET es == wire.f
            kinds == EntriesWithKey(es, "kind")
        IN  IF kinds = {} \/ (\A i \in kinds : es[i].val.s \notin KindTokens)
            THEN ~result.ok /\ result.err = "UnknownVariant"
            ELSE LET kind == ValueOf(es, "kind").s
                 IN  IF AbsentFields(kind, es) # {}
                     THEN ~result.ok /\ result.err = "MissingField"
                     ELSE result = Ok(ConditionOf(kind, es))

\* the objects the amended C11 is about: no key twice, and strings for kind
\* and for the fields of the variants
PlainCondition(es) ==
    /\ \A i, j \in 1..Len(es) : es[i].key = es[j].key => i = j
    /\ \A i \in 1..Len(es) :
           es[i].key \in {"kind", "key", "pattern", "is"} => es[i].val.t = "str"

\* C11 amended: for an object with no repeated key whose kind and variant
\* fields are strings, decoding fails with MissingField("kind") when `kind` is
\* absent, with the unknown-kind error carrying the token when `kind` is none
\* of the four tokens, with MissingField naming a required field of the
\* variant when one is absent, and otherwise yields the variant of that kind
\* with the field values.
C11_ConditionDecode ==
    (ConditionDecoded /\ PlainCondition(wire.f)) =>
        LET es == wire.f
        IN  IF EntriesWithKey(es, "kind") = {}
            THEN result = Err("MissingField", "kind")
            ELSE LET kind == ValueOf(es, "kind").s
                 IN  IF kind \notin KindTokens
                     THEN result = Err("UnknownVariant", kind)
                     ELSE IF AbsentFields(kind, es) # {}
                     THEN /\ ~result.ok
                          /\ result.err = "MissingField"
                          /\ result.tok \in AbsentFields(kind, es)
                     ELSE result = Ok(ConditionOf(kind, es))

C11_Witness ==
    /\ ConditionDecoded
    /\ wire = JObj(<<Entry("pattern", JStr("*foo*")), Entry("kind", JStr("event_match"))>>)
    /\ result = Err("MissingField", "key")

(* ===================== claims on repeated keys and maps ================ *)

\* C12: two AlgorithmAndDeviceId values that differ in algorithm or in
\* device id, device ids with ':' included, never encode to the same string.
C12_SerializeInjective ==
    (pc = "encoded" /\ codec = "key") =>
        \A alg \in KeyAlgorithm, dev \in DeviceIds :
            AlgorithmAndDeviceId_serialize(AlgorithmAndDeviceId(alg, dev)) = wire
                => AlgorithmAndDeviceId(alg, dev) = value

C12_Witness ==
    /\ pc = "encoded"
    /\ codec = "key"
    /\ value = AlgorithmAndDeviceId("Curve25519", <<Colon, "A">>)
    /\ wire = Str_curve25519 \o <<Colon, Colon, "A">>

\* the greatest member of a non-empty set of positions
Last(S) == CHOOSE i \in S : \A j \in S : j <= i

C14_DecodeThenEncode ==
    (pc = "reencoded" /\ codec = "key") => echo = wire

C14_Witness ==
    /\ pc = "reencoded"
    /\ codec = "key"
    /\ ~sent
    /\ wire = Str_signed_curve25519 \o <<Colon, "A", " ">>
    /\ echo = wire

====
